---- MODULE Spec2Model ----
(***************************************************************************)
(* A model of the device-compatibility bot (services.py, bot.py).          *)
(*                                                                         *)
(* Units: every length is an integer number of hundredths (height and      *)
(* width in 0.01 mm, diagonal in 0.01 in), so 151.7 mm is 15170 and the    *)
(* 0.01 epsilon of update_device_from_source is 1.                         *)
(* Strings that name devices are sequences of words: "Samsung" is          *)
(* <<"Samsung">>, "Galaxy S21" is <<"Galaxy", "S21">>, and joining two of  *)
(* them with one space is \o.                                              *)
(***************************************************************************)
EXTENDS Integers, Sequences, FiniteSets, TLC

VARIABLES
    glasses,              \* table glasses, in rowid order
    compatible_devices,   \* table compatible_devices, a set of <<device key, compatible key>>
    display_list_cache,   \* services._display_list_cache
    last,                 \* the last call: its name, arguments, locals and result
    device_suggestions,   \* table device_suggestions, in id order
    payments,             \* table payments, in id order
    user_queries,         \* table user_queries: today's query_count of each user
    user_data             \* context.user_data of each user

bot_vars == <<device_suggestions, payments, user_queries, user_data>>

vars == <<glasses, compatible_devices, display_list_cache, last, bot_vars>>

(***************************************************************************)
(* Bounds of the model.                                                    *)
(***************************************************************************)
MaxDevices == 2
MaxLinks == 3

(***************************************************************************)
(* Program constants.                                                      *)
(***************************************************************************)
MaxHeight == 30000
MaxWidth == 20000
MaxDiagonal == 1000
FUZZY_THRESHOLD == 70
TOL_MM == 50
DEFAULT_DIAGONAL_TOL == 10
SYNC_EPSILON == 1

VALID_NOTCH_TYPES == {"None", "Punch-hole", "Waterdrop", "Notch", "Full"}

(***************************************************************************)
(* The values the operations are called with.                              *)
(***************************************************************************)
K_S21 == <<(<<"Samsung">>), (<<"Galaxy", "S21">>)>>
K_GuardA == <<(<<"Generic">>), (<<"Guard", "A">>)>>
K_iPad == <<(<<"Apple">>), (<<"iPad", "Pro">>)>>

\* a brand of two words, and the identity add_phone makes of its display name
K_RedMagic == <<(<<"Red", "Magic">>), (<<"9">>)>>
K_RedSplit == <<(<<"Red">>), (<<"Magic", "9">>)>>

Keys == {K_S21, K_GuardA, K_iPad}

Dims(h, w, d, nt) == [h |-> h, w |-> w, d |-> d, nt |-> nt]

D_S21 == Dims(15170, 7120, 620, "Punch-hole")
D_GuardA == Dims(15000, 7000, 610, "None")
D_Max == Dims(30000, 20000, 1000, "waterdrop")
D_Tall == Dims(30500, 7000, 610, "None")
D_ZeroWidth == Dims(15000, 0, 610, "None")
D_BigDiag == Dims(15000, 7000, 1001, "Notch")
D_Tablet == Dims(28060, 21490, 1290, "None")

\* the calls add_glass(brand, model, h, w, diagonal_in, notch_type)
AddCalls ==
    { <<K_S21, D_S21>>, <<K_S21, D_Tall>>, <<K_GuardA, D_GuardA>>,
      <<K_GuardA, D_S21>>, <<K_GuardA, D_ZeroWidth>>,
      <<K_iPad, D_Max>> }

\* the calls update_phone_dimensions(brand, model, h, w, diagonal_in, notch_type)
EditCalls ==
    { <<K_GuardA, D_GuardA>>, <<K_GuardA, D_Tall>>, <<K_S21, D_BigDiag>>,
      <<K_iPad, D_Max>> }

\* the calls add_compatible_devices(device_brand, device_model, compatible_devices)
LinkCalls ==
    { <<K_S21, (<<K_S21>>)>>, <<K_S21, (<<K_GuardA, K_iPad>>)>>,
      <<K_GuardA, (<<K_S21>>)>> }

\* what the external source holds for a device (parse_device_page's result),
\* or NoData when the device is not found or the fetch fails
NoData == [found |-> FALSE]
SourceData(key) ==
    {NoData} \cup
    (IF key = K_S21 THEN {[found |-> TRUE, dims |-> D_S21]}
     ELSE IF key = K_iPad THEN {[found |-> TRUE, dims |-> D_Tablet]}
     ELSE {})

\* tolerances (height_tol, width_tol, diagonal_tol)
T_Zero == <<0, 0, 0>>
T_Loose == <<200, 200, 20>>
T_Skew == <<TOL_MM, 200, DEFAULT_DIAGONAL_TOL>>

\* names typed by users
N_S21 == <<"Galaxy", "S21">>
N_GuardA == <<"Generic", "Guard", "A">>
N_iPad == <<"iPad", "Pro">>
N_Banana == <<"Banana", "Phone">>

Names == {N_S21, N_GuardA, N_iPad, N_Banana}

\* the calls find_compatible_glasses(name, height_tol, width_tol, diagonal_tol)
FindCalls ==
    { <<N_S21, T_Zero>>, <<N_S21, T_Loose>>, <<N_S21, T_Skew>>,
      <<N_GuardA, T_Loose>>, <<N_iPad, T_Zero>>, <<N_Banana, T_Loose>> }

(***************************************************************************)
(* Rows.                                                                   *)
(***************************************************************************)
Row(key, dm) ==
    [brand |-> key[1], model |-> key[2], h |-> dm.h, w |-> dm.w, d |-> dm.d, nt |-> dm.nt]

KeyOf(r) == <<r.brand, r.model>>

Range(s) == {s[i] : i \in DOMAIN s}

Abs(x) == IF x < 0 THEN -x ELSE x

(***************************************************************************)
(* services.py: pure helpers.                                              *)
(***************************************************************************)
\* str.strip().title() on the notch strings the calls use: title() upper-cases
\* the first letter of every run of letters and lower-cases the rest, so the
\* letter after a hyphen becomes a capital
StripTitle(s) ==
    CASE s = "Punch-hole" -> "Punch-Hole"
      [] s = "punch-hole" -> "Punch-Hole"
      [] s = "waterdrop" -> "Waterdrop"
      [] s = "Waterdrop" -> "Waterdrop"
      [] s = "None" -> "None"
      [] s = "Notch" -> "Notch"
      [] s = "Full" -> "Full"
      [] OTHER -> s

normalize_notch_type(notch_type) ==
    LET t == StripTitle(notch_type)
    IN  IF t \in VALID_NOTCH_TYPES THEN t ELSE "None"

validate_device_dimensions(height_mm, width_mm, diagonal_in) ==
    /\ 0 < height_mm /\ height_mm <= MaxHeight
    /\ 0 < width_mm /\ width_mm <= MaxWidth
    /\ 0 < diagonal_in /\ diagonal_in <= MaxDiagonal

\* f"{b} {m}".strip()
DisplayName(r) == r.brand \o r.model

NoCache == [built |-> FALSE]

\* _build_display_list(): the cache after the call
build_display_list(cache, rows) ==
    IF cache.built THEN cache
    ELSE [built |-> TRUE,
          list |-> [i \in 1..Len(rows) |-> [name |-> DisplayName(rows[i]), spec |-> rows[i]]]]

Tokens(s) == Range(s)

\* fuzzywuzzy's score of a query against a candidate, 0..100, abstracted to the
\* words the two share
Score(query, cand) ==
    IF query = <<>> \/ cand = <<>> THEN 0
    ELSE IF query = cand THEN 100
    ELSE IF Tokens(query) \subseteq Tokens(cand) \/ Tokens(cand) \subseteq Tokens(query) THEN 90
    ELSE IF Tokens(query) \cap Tokens(cand) # {} THEN 50
    ELSE 20

\* process.extractOne(name, names): the index of the first candidate of the
\* highest score
extractOne(name, list) ==
    CHOOSE i \in 1..Len(list) :
        \A j \in 1..Len(list) :
            \/ Score(name, list[j].name) < Score(name, list[i].name)
            \/ Score(name, list[j].name) = Score(name, list[i].name) /\ i <= j

NotFound == [found |-> FALSE]

\* normalize_glass(name), on the display list the call built
normalize_glass(name, list) ==
    IF Len(list) = 0 THEN NotFound
    ELSE LET i == extractOne(name, list)
         IN  IF Score(name, list[i].name) >= FUZZY_THRESHOLD
             THEN [found |-> TRUE, name |-> list[i].name]
             ELSE NotFound

\* the first entry of the display list with this display name
FirstByName(display, list) ==
    list[CHOOSE i \in 1..Len(list) :
            /\ list[i].name = display
            /\ \A j \in 1..(i - 1) : list[j].name # display].spec

\* get_phone(name), on the display list the call built
get_phone(name, list) ==
    LET display == normalize_glass(name, list)
    IN  IF ~display.found THEN NotFound
        ELSE [found |-> TRUE, spec |-> FirstByName(display.name, list)]

device_exists(rows, key) == \E i \in 1..Len(rows) : KeyOf(rows[i]) = key

\* SELECT ... FROM glasses WHERE brand=? AND model=?
RowOf(rows, key) == rows[CHOOSE i \in 1..Len(rows) : KeyOf(rows[i]) = key]

\* the order of the primary-key index on the brand and model strings
KeyRank(key) ==
    CASE key = K_iPad -> 1
      [] key = K_GuardA -> 2
      [] key = K_RedSplit -> 3
      [] key = K_RedMagic -> 4
      [] key = K_S21 -> 5

RECURSIVE SortByRank(_)
SortByRank(ks) ==
    IF ks = {} THEN <<>>
    ELSE LET k == CHOOSE x \in ks : \A y \in ks : KeyRank(x) <= KeyRank(y)
         IN  <<k>> \o SortByRank(ks \ {k})

\* get_compatible_devices(brand, model): the linked keys, in index order
get_compatible_devices(links, key) ==
    SortByRank({l[2] : l \in {x \in links : x[1] = key}})

\* check_compat with the containment direction also required on the diagonal
check_compat_DiagonalContained(guard_spec, device_spec, height_tol, width_tol, diagonal_tol) ==
    /\ guard_spec.nt = device_spec.nt \/ guard_spec.nt = "None" \/ device_spec.nt = "None"
    /\ Abs(device_spec.h - guard_spec.h) <= height_tol /\ guard_spec.h <= device_spec.h
    /\ Abs(device_spec.w - guard_spec.w) <= width_tol /\ guard_spec.w <= device_spec.w
    /\ Abs(device_spec.d - guard_spec.d) <= diagonal_tol /\ guard_spec.d <= device_spec.d

\* check_compat with closeness only: no containment direction on any axis
check_compat_ClosenessOnly(guard_spec, device_spec, height_tol, width_tol, diagonal_tol) ==
    /\ guard_spec.nt = device_spec.nt \/ guard_spec.nt = "None" \/ device_spec.nt = "None"
    /\ Abs(device_spec.h - guard_spec.h) <= height_tol
    /\ Abs(device_spec.w - guard_spec.w) <= width_tol
    /\ Abs(device_spec.d - guard_spec.d) <= diagonal_tol

check_compat(guard_spec, device_spec, height_tol, width_tol, diagonal_tol) ==
    LET gh == guard_spec.h   gw == guard_spec.w
        gd == guard_spec.d   gnt == guard_spec.nt
        dh == device_spec.h  dw == device_spec.w
        dd == device_spec.d  dnt == device_spec.nt
        notch_compatible == gnt = dnt \/ gnt = "None" \/ dnt = "None"
        height_compatible == Abs(dh - gh) <= height_tol /\ gh <= dh
        width_compatible == Abs(dw - gw) <= width_tol /\ gw <= dw
        diagonal_compatible == Abs(dd - gd) <= diagonal_tol
    IN  height_compatible /\ width_compatible /\ diagonal_compatible /\ notch_compatible

Min2(a, b) == IF a <= b THEN a ELSE b
\* a maximum that keeps the value it has
Max2_KeepsFirst(a, b) == a

Max2(a, b) == IF a >= b THEN a ELSE b

NullBounds == [null |-> TRUE]

\* the selection without the device's own row
BoundsRows_LinkedOnly(rows, links, key) ==
    LET all == {r \in Range(rows) : <<key, KeyOf(r)>> \in links}
    IN  [i \in 1..Cardinality(all) |->
            CHOOSE r \in all : KeyOf(r) = SortByRank({KeyOf(x) : x \in all})[i]]

\* the rows get_verified_dimension_bounds selects: the catalog rows linked from
\* the device, united with the device's own row (UNION: a set, in index order)
BoundsRows(rows, links, key) ==
    LET linked == {r \in Range(rows) : <<key, KeyOf(r)>> \in links}
        own == {r \in Range(rows) : KeyOf(r) = key}
        all == linked \cup own
    IN  [i \in 1..Cardinality(all) |->
            CHOOSE r \in all : KeyOf(r) = SortByRank({KeyOf(x) : x \in all})[i]]

RECURSIVE BoundsLoop(_, _)
\* the loop of get_verified_dimension_bounds over the rows left, acc its locals
BoundsLoop(rs, acc) ==
    IF rs = <<>> THEN acc
    ELSE LET r == Head(rs)
             area == r.h * r.w
             first == acc.largest_device = <<>>
         IN  BoundsLoop(Tail(rs),
                [min_height |-> IF first THEN r.h ELSE Min2(acc.min_height, r.h),
                 max_height |-> IF first THEN r.h ELSE Max2(acc.max_height, r.h),
                 min_width |-> IF first THEN r.w ELSE Min2(acc.min_width, r.w),
                 max_width |-> IF first THEN r.w ELSE Max2(acc.max_width, r.w),
                 min_diagonal |-> IF first THEN r.d ELSE Min2(acc.min_diagonal, r.d),
                 max_diagonal |-> IF first THEN r.d ELSE Max2(acc.max_diagonal, r.d),
                 notch_types |-> acc.notch_types \cup {r.nt},
                 largest_device |->
                    IF first \/ area > acc.largest_device[1].h * acc.largest_device[1].w
                    THEN <<r>> ELSE acc.largest_device,
                 smallest_device |->
                    IF first \/ area < acc.smallest_device[1].h * acc.smallest_device[1].w
                    THEN <<r>> ELSE acc.smallest_device])

\* get_verified_dimension_bounds(brand, model)
get_verified_dimension_bounds(rows, links, key) ==
    LET rs == BoundsRows(rows, links, key)
    IN  IF rs = <<>> THEN NullBounds
        ELSE LET acc == BoundsLoop(rs,
                            [min_height |-> 0, max_height |-> 0, min_width |-> 0,
                             max_width |-> 0, min_diagonal |-> 0, max_diagonal |-> 0,
                             notch_types |-> {}, largest_device |-> <<>>,
                             smallest_device |-> <<>>])
             IN  [null |-> FALSE,
                  largest_device |-> acc.largest_device[1],
                  smallest_device |-> acc.smallest_device[1],
                  bounds |-> [min_height |-> acc.min_height, max_height |-> acc.max_height,
                              min_width |-> acc.min_width, max_width |-> acc.max_width,
                              min_diagonal |-> acc.min_diagonal,
                              max_diagonal |-> acc.max_diagonal,
                              notch_types |-> acc.notch_types]]

\* x BETWEEN lo AND hi
Between(x, lo, hi) == lo <= x /\ x <= hi

Tagged(r, source) == [row |-> r, source |-> source]

RECURSIVE VerifiedRows_NoCheck(_, _, _)
\* the loop over the verified links without the zero-tolerance check
VerifiedRows_NoCheck(targets, rows, base) ==
    IF targets = <<>> THEN <<>>
    ELSE LET key == Head(targets)
             rest == VerifiedRows_NoCheck(Tail(targets), rows, base)
         IN  IF device_exists(rows, key)
             THEN <<Tagged(RowOf(rows, key), "Verified")>> \o rest
             ELSE rest

RECURSIVE VerifiedRows(_, _, _)
\* the loop over the verified links of find_compatible_glasses
VerifiedRows(targets, rows, base) ==
    IF targets = <<>> THEN <<>>
    ELSE LET key == Head(targets)
             rest == VerifiedRows(Tail(targets), rows, base)
         IN  IF device_exists(rows, key) /\ check_compat(base, RowOf(rows, key), 0, 0, 0)
             THEN <<Tagged(RowOf(rows, key), "Verified")>> \o rest
             ELSE rest

RECURSIVE Filter(_, _)
\* the elements of a sequence that are in a set, in the sequence's order
Filter(s, keep) ==
    IF s = <<>> THEN <<>>
    ELSE IF Head(s) \in keep THEN <<Head(s)>> \o Filter(Tail(s), keep)
    ELSE Filter(Tail(s), keep)

TagAll(s, source) == [i \in 1..Len(s) |-> Tagged(s[i], source)]

\* the range query of the fallback branch
FallbackScan(rows, base, height_tol, width_tol, diagonal_tol) ==
    LET low_h == base.h - height_tol   high_h == base.h + height_tol
        low_w == base.w - width_tol    high_w == base.w + height_tol
        low_d == base.d - diagonal_tol high_d == base.d + diagonal_tol
    IN  Filter(rows, {r \in Range(rows) :
            /\ Between(r.h, low_h, high_h)
            /\ Between(r.w, low_w, high_w)
            /\ Between(r.d, low_d, high_d)
            /\ (r.nt = base.nt \/ r.nt = "None" \/ base.nt = "None")})

\* the range query of the bounds branch
BoundsScan(rows, bounds, height_tol, width_tol, diagonal_tol) ==
    LET min_h == bounds.min_height - height_tol
        max_h == bounds.max_height + height_tol
        min_w == bounds.min_width - width_tol
        max_w == bounds.max_width + height_tol
        min_d == bounds.min_diagonal - diagonal_tol
        max_d == bounds.max_diagonal + diagonal_tol
        valid_notch_types == bounds.notch_types \cup {"None"}
    IN  Filter(rows, {r \in Range(rows) :
            /\ Between(r.h, min_h, max_h)
            /\ Between(r.w, min_w, max_w)
            /\ Between(r.d, min_d, max_d)
            /\ r.nt \in valid_notch_types})

\* the scan with no area filter
AreaFilter_None(scan, base) == TagAll(scan, "Dimension-based")

\* the area filter with a strict comparison
AreaFilter_Strict(scan, base) ==
    TagAll(Filter(scan, {r \in Range(scan) : r.h * r.w < base.h * base.w}),
           "Dimension-based")

\* the rows of the scan whose area is at most the base device's
AreaFilter(scan, base) ==
    TagAll(Filter(scan, {r \in Range(scan) : r.h * r.w <= base.h * base.w}),
           "Dimension-based")

\* the merge without the deduplication
Unique_KeepAll(combined, seen) == combined

RECURSIVE Unique_Reversed(_, _)
\* the deduplication building its result back to front
Unique_Reversed(combined, seen) ==
    IF combined = <<>> THEN <<>>
    ELSE LET key == KeyOf(Head(combined).row)
         IN  IF key \notin seen
             THEN Unique_Reversed(Tail(combined), seen \cup {key}) \o <<Head(combined)>>
             ELSE Unique_Reversed(Tail(combined), seen)

RECURSIVE Unique(_, _)
\* the first-seen deduplication by (brand, model)
Unique(combined, seen) ==
    IF combined = <<>> THEN <<>>
    ELSE LET key == KeyOf(Head(combined).row)
         IN  IF key \notin seen
             THEN <<Head(combined)>> \o Unique(Tail(combined), seen \cup {key})
             ELSE Unique(Tail(combined), seen)

\* find_compatible_glasses answering None for an empty result
find_compatible_glasses_EmptyIsNone(name, tol, list, rows, links) ==
    LET display == normalize_glass(name, list)
    IN  IF ~display.found THEN [found |-> FALSE]
        ELSE
        LET base == FirstByName(display.name, list)
            b == get_verified_dimension_bounds(rows, links, KeyOf(base))
            verified_rows == VerifiedRows(get_compatible_devices(links, KeyOf(base)), rows, base)
            filtered_rows == AreaFilter(BoundsScan(rows, b.bounds, tol[1], tol[2], tol[3]), base)
            unique_results == Unique(verified_rows \o filtered_rows, {})
        IN  IF unique_results = <<>> THEN [found |-> FALSE]
            ELSE [found |-> TRUE, base |-> base, path |-> "bounds",
                  verified_rows |-> verified_rows, filtered_rows |-> filtered_rows,
                  rows |-> unique_results]

\* find_compatible_glasses(name, height_tol, width_tol, diagonal_tol), on the
\* display list the call built: its result and its locals
find_compatible_glasses(name, tol, list, rows, links) ==
    LET display == normalize_glass(name, list)
    IN  IF ~display.found THEN [found |-> FALSE]
        ELSE
        LET base == FirstByName(display.name, list)
            b == get_verified_dimension_bounds(rows, links, KeyOf(base))
            verified_devices == get_compatible_devices(links, KeyOf(base))
            verified_rows == VerifiedRows(verified_devices, rows, base)
        IN  IF b.null
            THEN [found |-> TRUE, base |-> base, path |-> "fallback",
                  verified_rows |-> verified_rows, filtered_rows |-> <<>>,
                  rows |-> TagAll(FallbackScan(rows, base, tol[1], tol[2], tol[3]),
                                  "Dimension-based")]
            ELSE LET scan == BoundsScan(rows, b.bounds, tol[1], tol[2], tol[3])
                     filtered_rows == AreaFilter(scan, base)
                 IN  [found |-> TRUE, base |-> base, path |-> "bounds",
                      verified_rows |-> verified_rows, filtered_rows |-> filtered_rows,
                      rows |-> Unique(verified_rows \o filtered_rows, {})]

\* find_devices_by_dimensions(height_min, height_max, width_min, width_max,
\* diagonal_min, diagonal_max)
find_devices_by_dimensions(rows, q) ==
    Filter(rows, {r \in Range(rows) :
        /\ Between(r.h, q.height_min, q.height_max)
        /\ Between(r.w, q.width_min, q.width_max)
        /\ Between(r.d, q.diagonal_min, q.diagonal_max)})

(***************************************************************************)
(* The catalog's write paths.                                              *)
(***************************************************************************)
\* INSERT OR REPLACE INTO glasses: the old row of the key, if any, is deleted
\* and the new row gets a fresh rowid
InsertOrReplace(rows, r) ==
    Filter(rows, {x \in Range(rows) : KeyOf(x) # KeyOf(r)}) \o <<r>>

\* UPDATE glasses SET ... WHERE brand=? AND model=?
UpdateWhere(rows, key, dm) ==
    [i \in 1..Len(rows) |-> IF KeyOf(rows[i]) = key THEN Row(key, dm) ELSE rows[i]]

\* add_glass clearing the cache before it validates
add_glass_ClearsFirst(rows, cache, key, dm) ==
    IF ~validate_device_dimensions(dm.h, dm.w, dm.d)
    THEN [raised |-> TRUE, glasses |-> rows, cache |-> NoCache]
    ELSE [raised |-> FALSE,
          glasses |-> InsertOrReplace(rows,
                          Row(key, [dm EXCEPT !.nt = normalize_notch_type(dm.nt)])),
          cache |-> NoCache]

\* add_glass(brand, model, h, w, diagonal_in, notch_type): whether it raised,
\* and the table and the cache after it
add_glass(rows, cache, key, dm) ==
    IF ~validate_device_dimensions(dm.h, dm.w, dm.d)
    THEN [raised |-> TRUE, glasses |-> rows, cache |-> cache]
    ELSE [raised |-> FALSE,
          glasses |-> InsertOrReplace(rows,
                          Row(key, [dm EXCEPT !.nt = normalize_notch_type(dm.nt)])),
          cache |-> NoCache]

\* update_phone_dimensions(brand, model, h, w, diagonal_in, notch_type)
update_phone_dimensions(rows, cache, key, dm) ==
    IF ~validate_device_dimensions(dm.h, dm.w, dm.d)
    THEN [raised |-> TRUE, glasses |-> rows, cache |-> cache]
    ELSE [raised |-> FALSE,
          glasses |-> UpdateWhere(rows, key, [dm EXCEPT !.nt = normalize_notch_type(dm.nt)]),
          cache |-> NoCache]

\* the test of update_device_from_source for a material change
Changed(current, dm) ==
    \/ Abs(current.h - dm.h) > SYNC_EPSILON
    \/ Abs(current.w - dm.w) > SYNC_EPSILON
    \/ Abs(current.d - dm.d) > SYNC_EPSILON
    \/ current.nt # dm.nt

\* update_device_from_source(brand, model), data what the source returned
update_device_from_source(rows, cache, key, data) ==
    IF ~data.found
    THEN [raised |-> FALSE, status |-> "null", glasses |-> rows, cache |-> cache]
    ELSE IF device_exists(rows, key)
    THEN IF Changed(RowOf(rows, key), data.dims)
         THEN [raised |-> FALSE, status |-> "updated",
               glasses |-> UpdateWhere(rows, key, data.dims), cache |-> cache]
         ELSE [raised |-> FALSE, status |-> "skipped", glasses |-> rows, cache |-> cache]
    ELSE LET a == add_glass(rows, cache, key, data.dims)
         IN  [raised |-> a.raised, status |-> IF a.raised THEN "raised" ELSE "inserted",
              glasses |-> a.glasses, cache |-> a.cache]

RECURSIVE InsertOrIgnore(_, _, _)
\* add_compatible_devices(device_brand, device_model, compatible_devices)
InsertOrIgnore(links, key, targets) ==
    IF targets = <<>> THEN links
    ELSE InsertOrIgnore(links \cup {<<key, Head(targets)>>}, key, Tail(targets))

\* Python's None, and a returned integer
PyNone == [none |-> TRUE]
PyInt(n) == [none |-> FALSE, value |-> n]

\* add_compatible_devices(device_brand, device_model, compatible_devices): the
\* table after the call and the value returned; the function has no return
\* statement
add_compatible_devices(links, key, targets) ==
    [links |-> InsertOrIgnore(links, key, targets), res |-> PyNone]

\* the ranges find_devices_by_dimensions is called with
RangeQueries ==
    { [height_min |-> 15000, height_max |-> 15500, width_min |-> 7000, width_max |-> 7500,
       diagonal_min |-> 600, diagonal_max |-> 620],
      [height_min |-> 15100, height_max |-> 15000, width_min |-> 7000, width_max |-> 7500,
       diagonal_min |-> 600, diagonal_max |-> 620] }

(***************************************************************************)
(* bot.py: users and their conversation state.                             *)
(***************************************************************************)
\* config.ADMIN_IDS, and the users who write to the bot
ADMIN_IDS == {1}
Users == {1, 7}

\* context.user_data without the keys state and buy_plan_id
NoUserData == [state |-> "", buy_plan_id |-> ""]

\* the tables init_db creates, empty, and no conversation under way
BotInit ==
    /\ device_suggestions = <<>>
    /\ payments = <<>>
    /\ user_queries = [u \in Users |-> 0]
    /\ user_data = [u \in Users |-> NoUserData]

\* the limit of the free plan, and the intents that count against it
QUERY_LIMIT == 10
COUNTED_INTENTS ==
    {"check_compatibility", "list_compatible", "find_by_dimensions",
     "batch_compatibility", "view_compatible_devices"}
ADMIN_INTENTS ==
    {"list_devices", "add_device", "edit_device", "add_compatible_devices",
     "review_suggestions", "fetch_device"}
PRO_INTENTS == {"find_by_dimensions", "batch_compatibility"}

\* config.PLANS, in the order get_plans returns them
PLANS == <<"free", "pro">>

\* the module bot.py binds the name sqlite3: it has no such import, so an
\* evaluation of sqlite3.connect raises NameError
bot_binds_sqlite3 == FALSE

\* get_user_subscription_status(user_id): the plan of the user's latest
\* approved payment, or "free"
get_user_subscription_status(pays, u) ==
    LET mine == {i \in DOMAIN pays : pays[i].user_id = u /\ pays[i].status = "approved"}
    IN  IF mine = {} THEN "free"
        ELSE pays[CHOOSE i \in mine : \A j \in mine : j <= i].plan_id

\* check_query_limit(user_id)
check_query_limit(queries, u) == queries[u]

\* increment_query_count(user_id): the table after the call
increment_query_count(queries, u) == [queries EXCEPT ![u] = @ + 1]

\* the free plan's limit as handle_text_message tests it, no more queries
\* than the limit
quota_reached_OffByOne(query_count) == query_count > QUERY_LIMIT

quota_reached(query_count) == query_count >= QUERY_LIMIT

\* name.split(" ", 1): the first word, and the rest
SplitFirst(name) ==
    IF Len(name) >= 2 THEN <<(<<Head(name)>>), Tail(name)>> ELSE <<name, (<<>>)>>

\* add_phone(name, h, w, diagonal_in, notch_type)
add_phone(rows, cache, name, dm) == add_glass(rows, cache, SplitFirst(name), dm)

\* add_device_suggestion(user_id, brand, model, h, w, diagonal_in, notch_type)
add_device_suggestion(sugs, u, key, dm) ==
    IF ~validate_device_dimensions(dm.h, dm.w, dm.d)
    THEN [raised |-> TRUE, device_suggestions |-> sugs]
    ELSE [raised |-> FALSE,
          device_suggestions |->
              Append(sugs, [user_id |-> u, brand |-> key[1], model |-> key[2],
                            dims |-> [dm EXCEPT !.nt = normalize_notch_type(dm.nt)],
                            status |-> "pending"])]

\* add_payment(user_id, plan_id, screenshot_file_id)
add_payment(pays, u, plan_id) ==
    Append(pays, [user_id |-> u, plan_id |-> plan_id, status |-> "pending"])

\* update_payment_status(payment_id, new_status)
update_payment_status(pays, pid, new_status) ==
    [pays EXCEPT ![pid].status = new_status]

\* get_phone(name) or get_phone(normalize_glass(name) or "")
lookup_phone(name, list) ==
    LET p == get_phone(name, list)
        n == normalize_glass(name, list)
    IN  IF p.found THEN p ELSE get_phone(IF n.found THEN n.name ELSE <<>>, list)

RECURSIVE DictKeys(_, _)
\* the keys of device_cache, in insertion order: each name once, at its first
\* place
DictKeys(names, seen) ==
    IF names = <<>> THEN <<>>
    ELSE IF Head(names) \in seen THEN DictKeys(Tail(names), seen)
    ELSE <<Head(names)>> \o DictKeys(Tail(names), seen \cup {Head(names)})

RECURSIVE ResolvedSpecs(_, _)
\* [spec for spec in device_cache.values() if spec]
ResolvedSpecs(names, list) ==
    IF names = <<>> THEN <<>>
    ELSE LET p == lookup_phone(Head(names), list)
         IN  (IF p.found THEN <<p.spec>> ELSE <<>>) \o ResolvedSpecs(Tail(names), list)

RECURSIVE PairResults(_, _, _, _)
\* the two nested loops of check_batch_compatibility
PairResults(specs, height_tol, width_tol, diagonal_tol) ==
    IF Len(specs) < 2 THEN <<>>
    ELSE [j \in 1..(Len(specs) - 1) |->
             [first |-> KeyOf(specs[1]), second |-> KeyOf(specs[j + 1]),
              fit |-> check_compat(specs[1], specs[j + 1],
                                   height_tol, width_tol, diagonal_tol)]]
         \o PairResults(Tail(specs), height_tol, width_tol, diagonal_tol)

\* check_batch_compatibility(device_names, height_tol, width_tol, diagonal_tol),
\* on the display list the call built
check_batch_compatibility(device_names, height_tol, width_tol, diagonal_tol, list) ==
    LET specs == ResolvedSpecs(DictKeys(device_names, {}), list)
    IN  IF Len(specs) < 2 THEN <<>>
        ELSE PairResults(specs, height_tol, width_tol, diagonal_tol)

(***************************************************************************)
(* bot.py: the handlers. A handler takes the state w it runs in and gives  *)
(* the state it leaves, the reply it sends and what it computed.           *)
(***************************************************************************)
World ==
    [glasses |-> glasses, compatible_devices |-> compatible_devices,
     display_list_cache |-> display_list_cache,
     device_suggestions |-> device_suggestions, payments |-> payments,
     user_queries |-> user_queries, user_data |-> user_data]

Outcome(w, reply, res) == [w |-> w, reply |-> reply, res |-> res]

\* the state after _build_display_list()
WithCache(w) ==
    [w EXCEPT !.display_list_cache = build_display_list(w.display_list_cache, w.glasses)]

handle_check_compatibility(w, u, params) ==
    LET c == WithCache(w)
        p1 == lookup_phone(params.model1, c.display_list_cache.list)
        p2 == lookup_phone(params.model2, c.display_list_cache.list)
    IN  IF params.model1 = <<>> \/ params.model2 = <<>>
        THEN Outcome(w, "specify_two_models", PyNone)
        ELSE IF ~p1.found \/ ~p2.found THEN Outcome(c, "models_not_found", PyNone)
        ELSE Outcome(c, "fit",
                     [guard |-> p1.spec, target |-> p2.spec,
                      fit |-> check_compat(p1.spec, p2.spec,
                                           TOL_MM, TOL_MM, DEFAULT_DIAGONAL_TOL)])

handle_list_compatible(w, u, params) ==
    LET c == WithCache(w)
        is_pro == get_user_subscription_status(w.payments, u) = "pro"
        corr == normalize_glass(params.model, c.display_list_cache.list)
        arr == find_compatible_glasses(corr.name,
                                       <<TOL_MM, TOL_MM, DEFAULT_DIAGONAL_TOL>>,
                                       c.display_list_cache.list, c.glasses,
                                       c.compatible_devices)
    IN  IF params.model = <<>> THEN Outcome(w, "specify_a_model", PyNone)
        ELSE IF ~corr.found THEN Outcome(c, "not_recognized", PyNone)
        ELSE IF ~arr.found \/ arr.rows = <<>> THEN Outcome(c, "no_compatible_devices", PyNone)
        ELSE Outcome(c, "compatible_devices", [rows |-> arr.rows, pro_note |-> is_pro])

handle_find_by_dimensions(w, u, params) ==
    LET arr == find_devices_by_dimensions(w.glasses, params)
    IN  IF arr = <<>> THEN Outcome(w, "no_devices_in_range", PyNone)
        ELSE Outcome(w, "devices_in_range", [rows |-> TagAll(arr, "Dimension-based")])

handle_batch_compatibility(w, u, params) ==
    LET c == WithCache(w)
        results == check_batch_compatibility(params.devices, TOL_MM, TOL_MM,
                                             DEFAULT_DIAGONAL_TOL,
                                             c.display_list_cache.list)
    IN  IF Len(params.devices) < 2 THEN Outcome(w, "provide_two_devices", PyNone)
        ELSE IF results = <<>>
        THEN Outcome(c, "no_valid_devices", [devices |-> params.devices, results |-> results])
        ELSE Outcome(c, "batch_results", [devices |-> params.devices, results |-> results])

handle_suggest_device(w, u, params) ==
    LET a == add_device_suggestion(w.device_suggestions, u, params.key, params.dims)
    IN  IF a.raised THEN Outcome(w, "failed_to_submit", PyNone)
        ELSE Outcome([w EXCEPT !.device_suggestions = a.device_suggestions],
                     "suggestion_submitted", PyNone)

\* the plan a plan number or a plan id names, "" when it names none
PlanNamed(plan_id) ==
    CASE plan_id = "1" -> PLANS[1]
      [] plan_id = "2" -> PLANS[2]
      [] \E i \in DOMAIN PLANS : PLANS[i] = plan_id -> plan_id
      [] OTHER -> ""

handle_buy_subscription(w, u, params) ==
    IF params.plan_id = "" THEN Outcome(w, "available_plans", PyNone)
    ELSE IF PlanNamed(params.plan_id) = "" THEN Outcome(w, "invalid_plan", PyNone)
    ELSE Outcome([w EXCEPT !.user_data[u] =
                      [state |-> "awaiting_payment_screenshot",
                       buy_plan_id |-> PlanNamed(params.plan_id)]],
                 "payment_instructions", PyNone)

handle_view_subscription(w, u) ==
    Outcome(w, "subscription_details",
            [plan_id |-> get_user_subscription_status(w.payments, u)])

cancel(w, u) == Outcome([w EXCEPT !.user_data[u] = NoUserData], "action_cancelled", PyNone)

\* normalize_brand(name): the brand of the catalog that matches best
normalize_brand(name, list) ==
    LET brands == {list[i].spec.brand : i \in DOMAIN list}
        best == CHOOSE b \in brands : \A c \in brands : Score(name, c) <= Score(name, b)
    IN  IF brands = {} THEN NotFound
        ELSE IF Score(name, best) >= FUZZY_THRESHOLD THEN [found |-> TRUE, name |-> best]
        ELSE NotFound

handle_list_devices(w, u, params) ==
    LET c == WithCache(w)
        norm == normalize_brand(params.brand, c.display_list_cache.list)
        arr == Filter(c.glasses, {r \in Range(c.glasses) : r.brand = norm.name})
    IN  IF params.brand = <<>> THEN Outcome(w, "specify_a_brand", PyNone)
        ELSE IF ~norm.found \/ arr = <<>> THEN Outcome(c, "no_devices_for_brand", PyNone)
        ELSE Outcome(c, "devices", [rows |-> arr])

handle_add_device(w, u, params) ==
    LET a == add_phone(w.glasses, w.display_list_cache,
                       params.key[1] \o params.key[2], params.dims)
    IN  IF device_exists(w.glasses, params.key) THEN Outcome(w, "already_exists", PyNone)
        ELSE IF a.raised THEN Outcome(w, "failed_to_add", PyNone)
        ELSE Outcome([w EXCEPT !.glasses = a.glasses, !.display_list_cache = a.cache],
                     "added", PyNone)

handle_edit_device(w, u, params) ==
    LET a == update_phone_dimensions(w.glasses, w.display_list_cache,
                                     params.key, params.dims)
    IN  IF ~device_exists(w.glasses, params.key) THEN Outcome(w, "device_not_found", PyNone)
        ELSE IF a.raised THEN Outcome(w, "failed_to_update", PyNone)
        ELSE Outcome([w EXCEPT !.glasses = a.glasses, !.display_list_cache = a.cache],
                     "updated", PyNone)

handle_add_compatible_devices(w, u, params) ==
    LET valid_devices ==
            Filter(params.compatible_devices,
                   {k \in Range(params.compatible_devices) : device_exists(w.glasses, k)})
        a == add_compatible_devices(w.compatible_devices, params.key, valid_devices)
    IN  IF ~device_exists(w.glasses, params.key) THEN Outcome(w, "device_not_found", PyNone)
        ELSE IF valid_devices = <<>> THEN Outcome(w, "no_valid_compatible_devices", PyNone)
        ELSE Outcome([w EXCEPT !.compatible_devices = a.links],
                     "added_compatible_devices", [count |-> Len(valid_devices)])

\* handle_review_suggestions: its first statement evaluates sqlite3.connect
handle_review_suggestions(w, u) ==
    LET rows == {i \in DOMAIN w.device_suggestions :
                    w.device_suggestions[i].status = "pending"}
    IN  IF ~bot_binds_sqlite3 THEN Outcome(w, "NameError", PyNone)
        ELSE IF rows = {} THEN Outcome(w, "no_pending_suggestions", PyNone)
        ELSE Outcome(w, "select_a_suggestion", [buttons |-> rows])

handle_fetch_device(w, u, params) ==
    LET a == update_device_from_source(w.glasses, w.display_list_cache,
                                       params.key, params.source)
    IN  IF a.raised THEN Outcome(w, "failed_to_fetch", PyNone)
        ELSE Outcome([w EXCEPT !.glasses = a.glasses, !.display_list_cache = a.cache],
                     a.status, PyNone)

\* the test before find_by_dimensions and batch_compatibility, dropped
pro_required_Never(pays, u) == FALSE

\* user_id not in ADMIN_IDS and get_user_subscription_status(user_id) != "pro"
pro_required(pays, u) ==
    u \notin ADMIN_IDS /\ get_user_subscription_status(pays, u) # "pro"

\* the test before the admin intents, dropped
unauthorized_Never(u) == FALSE

\* user_id not in ADMIN_IDS, before the admin intents
unauthorized(u) == u \notin ADMIN_IDS

\* the chain of tests on the intent in handle_text_message
dispatch(w, u, intent, params) ==
    CASE intent = "check_compatibility" -> handle_check_compatibility(w, u, params)
      [] intent \in {"list_compatible", "view_compatible_devices"} ->
            handle_list_compatible(w, u, params)
      [] intent = "find_by_dimensions" ->
            IF pro_required(w.payments, u) THEN Outcome(w, "requires_pro", PyNone)
            ELSE handle_find_by_dimensions(w, u, params)
      [] intent = "batch_compatibility" ->
            IF pro_required(w.payments, u) THEN Outcome(w, "requires_pro", PyNone)
            ELSE handle_batch_compatibility(w, u, params)
      [] intent = "suggest_device" -> handle_suggest_device(w, u, params)
      [] intent = "buy_subscription" -> handle_buy_subscription(w, u, params)
      [] intent = "view_subscription" -> handle_view_subscription(w, u)
      [] intent \in ADMIN_INTENTS ->
            IF unauthorized(u) THEN Outcome(w, "unauthorized", PyNone)
            ELSE (CASE intent = "list_devices" -> handle_list_devices(w, u, params)
                    [] intent = "add_device" -> handle_add_device(w, u, params)
                    [] intent = "edit_device" -> handle_edit_device(w, u, params)
                    [] intent = "add_compatible_devices" ->
                          handle_add_compatible_devices(w, u, params)
                    [] intent = "review_suggestions" -> handle_review_suggestions(w, u)
                    [] intent = "fetch_device" -> handle_fetch_device(w, u, params))
      [] intent = "cancel" -> cancel(w, u)
      [] OTHER -> Outcome(w, "did_not_understand", PyNone)

\* a handler's outcome with the intent the message was classified as, "" when
\* the handler returned before it asked the classifier
Handled(o, intent) == [w |-> o.w, reply |-> o.reply, res |-> o.res, intent |-> intent]

\* handle_text_message asking the classifier first and refusing at the limit
\* only the intents that count
handle_text_message_LimitAfterClassify(w, u, m) ==
    IF w.user_data[u].state = "awaiting_payment_screenshot"
    THEN IF m.text = "cancel"
         THEN Handled(Outcome([w EXCEPT !.user_data[u] = NoUserData],
                              "payment_cancelled", PyNone), "")
         ELSE Handled(Outcome(w, "send_a_screenshot", PyNone), "")
    ELSE IF ~m.result.ok
    THEN Handled(Outcome(w, "could_not_process", PyNone), "")
    ELSE IF /\ u \notin ADMIN_IDS
            /\ get_user_subscription_status(w.payments, u) # "pro"
            /\ quota_reached(check_query_limit(w.user_queries, u))
            /\ m.result.intent \in COUNTED_INTENTS
    THEN Handled(Outcome(w, "daily_limit_reached", PyNone), "")
    ELSE LET intent == m.result.intent
             counted ==
                 IF u \notin ADMIN_IDS /\ intent \in COUNTED_INTENTS
                 THEN [w EXCEPT !.user_queries = increment_query_count(w.user_queries, u)]
                 ELSE w
         IN  Handled(dispatch(counted, u, intent, m.result.parameters), intent)

\* handle_text_message for the message m of user u: m.text is "cancel" for
\* one of the words cancel, stop, exit, /cancel, and m.result is what the
\* classifier answers when it is asked
handle_text_message(w, u, m) ==
    IF w.user_data[u].state = "awaiting_payment_screenshot"
    THEN IF m.text = "cancel"
         THEN Handled(Outcome([w EXCEPT !.user_data[u] = NoUserData],
                              "payment_cancelled", PyNone), "")
         ELSE Handled(Outcome(w, "send_a_screenshot", PyNone), "")
    ELSE IF /\ u \notin ADMIN_IDS
            /\ get_user_subscription_status(w.payments, u) # "pro"
            /\ quota_reached(check_query_limit(w.user_queries, u))
    THEN Handled(Outcome(w, "daily_limit_reached", PyNone), "")
    ELSE IF ~m.result.ok
    THEN Handled(Outcome(w, "could_not_process", PyNone), "")
    ELSE LET intent == m.result.intent
             counted ==
                 IF u \notin ADMIN_IDS /\ intent \in COUNTED_INTENTS
                 THEN [w EXCEPT !.user_queries = increment_query_count(w.user_queries, u)]
                 ELSE w
         IN  Handled(dispatch(counted, u, intent, m.result.parameters), intent)

\* the photo handler leaving state and buy_plan_id in context.user_data
handle_photo_message_KeepsState(w, u) ==
    LET plan_id == w.user_data[u].buy_plan_id
    IN  IF w.user_data[u].state # "awaiting_payment_screenshot"
        THEN Outcome(w, "unexpected_photo", PyNone)
        ELSE IF plan_id = "" THEN Outcome(w, "no_plan_selected", PyNone)
        ELSE Outcome([w EXCEPT !.payments = add_payment(w.payments, u, plan_id)],
                     "payment_received", [pid |-> Len(w.payments) + 1])

\* handle_photo_message and process_payment_screenshot
handle_photo_message(w, u) ==
    LET plan_id == w.user_data[u].buy_plan_id
        popped == [w EXCEPT !.user_data[u] = NoUserData]
    IN  IF w.user_data[u].state # "awaiting_payment_screenshot"
        THEN Outcome(w, "unexpected_photo", PyNone)
        ELSE IF plan_id = "" THEN Outcome(popped, "no_plan_selected", PyNone)
        ELSE Outcome([popped EXCEPT !.payments = add_payment(w.payments, u, plan_id)],
                     "payment_received", [pid |-> Len(w.payments) + 1])

\* payment_review_callback for the callback data action_pid
payment_review_callback(w, action, pid) ==
    LET new_status == IF action = "approve" THEN "approved" ELSE "rejected"
    IN  IF pid \notin DOMAIN w.payments THEN Outcome(w, "payment_record_missing", PyNone)
        ELSE Outcome([w EXCEPT !.payments = update_payment_status(w.payments, pid, new_status)],
                     new_status, PyNone)

\* suggestion_review_callback for the callback data action_sug_rid: its first
\* statement after the split evaluates sqlite3.connect
suggestion_review_callback(w, action, rid) ==
    IF ~bot_binds_sqlite3 THEN Outcome(w, "NameError", PyNone)
    ELSE IF rid \notin DOMAIN w.device_suggestions
    THEN Outcome(w, "suggestion_not_found", PyNone)
    ELSE
    LET row == w.device_suggestions[rid]
        decided(status) == [w EXCEPT !.device_suggestions[rid].status = status]
        a == add_phone(w.glasses, w.display_list_cache, row.brand \o row.model, row.dims)
    IN  IF action = "approve" /\ device_exists(w.glasses, <<row.brand, row.model>>)
        THEN Outcome(decided("rejected"), "rejected_already_exists", PyNone)
        ELSE IF action # "approve" THEN Outcome(decided("rejected"), "rejected", PyNone)
        ELSE IF a.raised THEN Outcome(w, "failed_to_process", PyNone)
        ELSE Outcome([decided("approved") EXCEPT !.glasses = a.glasses,
                                                 !.display_list_cache = a.cache],
                     "approved", PyNone)

(***************************************************************************)
(* The state machine: one action per call.                                 *)
(***************************************************************************)
Init ==
    /\ glasses = <<>>
    /\ compatible_devices = {}
    /\ display_list_cache = NoCache
    /\ last = [op |-> "init"]
    /\ BotInit

AddGlass ==
    \E c \in AddCalls :
        LET a == add_glass(glasses, display_list_cache, c[1], c[2])
        IN  /\ Len(a.glasses) <= MaxDevices
            /\ glasses' = a.glasses
            /\ display_list_cache' = a.cache
            /\ last' = [op |-> "add_glass", key |-> c[1], dims |-> c[2], raised |-> a.raised]
            /\ UNCHANGED <<compatible_devices, bot_vars>>

UpdatePhoneDimensions ==
    \E c \in EditCalls :
        LET a == update_phone_dimensions(glasses, display_list_cache, c[1], c[2])
        IN  /\ glasses' = a.glasses
            /\ display_list_cache' = a.cache
            /\ last' = [op |-> "update_phone_dimensions", key |-> c[1], dims |-> c[2],
                        raised |-> a.raised]
            /\ UNCHANGED <<compatible_devices, bot_vars>>

UpdateDeviceFromSource ==
    \E key \in Keys : \E data \in SourceData(key) :
        LET a == update_device_from_source(glasses, display_list_cache, key, data)
        IN  /\ Len(a.glasses) <= MaxDevices
            /\ glasses' = a.glasses
            /\ display_list_cache' = a.cache
            /\ last' = [op |-> "update_device_from_source", key |-> key, data |-> data,
                        raised |-> a.raised, status |-> a.status]
            /\ UNCHANGED <<compatible_devices, bot_vars>>

AddCompatibleDevices ==
    \E c \in LinkCalls :
        LET a == add_compatible_devices(compatible_devices, c[1], c[2])
        IN  /\ Cardinality(a.links) <= MaxLinks
            /\ compatible_devices' = a.links
            /\ last' = [op |-> "add_compatible_devices", key |-> c[1], targets |-> c[2],
                        res |-> a.res]
            /\ UNCHANGED <<glasses, display_list_cache, bot_vars>>

FindCompatibleGlasses ==
    \E c \in FindCalls :
        LET cache == build_display_list(display_list_cache, glasses)
            r == find_compatible_glasses(c[1], c[2], cache.list, glasses, compatible_devices)
        IN  /\ display_list_cache' = cache
            /\ last' = [op |-> "find_compatible_glasses", name |-> c[1], tol |-> c[2], res |-> r]
            /\ UNCHANGED <<glasses, compatible_devices, bot_vars>>

GetPhone ==
    \E name \in Names :
        LET cache == build_display_list(display_list_cache, glasses)
        IN  /\ display_list_cache' = cache
            /\ last' = [op |-> "get_phone", name |-> name,
                        display |-> normalize_glass(name, cache.list),
                        res |-> get_phone(name, cache.list)]
            /\ UNCHANGED <<glasses, compatible_devices, bot_vars>>

GetVerifiedDimensionBounds ==
    \E key \in Keys :
        /\ last' = [op |-> "get_verified_dimension_bounds", key |-> key,
                    res |-> get_verified_dimension_bounds(glasses, compatible_devices, key)]
        /\ UNCHANGED <<glasses, compatible_devices, display_list_cache, bot_vars>>

FindDevicesByDimensions ==
    \E q \in RangeQueries :
        /\ last' = [op |-> "find_devices_by_dimensions", query |-> q,
                    res |-> find_devices_by_dimensions(glasses, q)]
        /\ UNCHANGED <<glasses, compatible_devices, display_list_cache, bot_vars>>

Next ==
    \/ AddGlass
    \/ UpdatePhoneDimensions
    \/ UpdateDeviceFromSource
    \/ AddCompatibleDevices
    \/ FindCompatibleGlasses
    \/ GetPhone
    \/ GetVerifiedDimensionBounds
    \/ FindDevicesByDimensions

Spec == Init /\ [][Next]_vars

(***************************************************************************)
(* check_compat as a pure function: the inputs are drawn by the initial    *)
(* state and one step applies it.                                          *)
(***************************************************************************)
CompatSpecs ==
    { Dims(h, w, d, nt) : h \in {15000, 15170, 15200}, w \in {7000, 7120, 7200},
                          d \in {610, 620, 630}, nt \in {"None", "Punch-hole", "Waterdrop"} }

InitCompat ==
    /\ glasses = <<>>
    /\ compatible_devices = {}
    /\ display_list_cache = NoCache
    /\ BotInit
    /\ \E g \in CompatSpecs, t \in CompatSpecs, tol \in {T_Zero, T_Loose, T_Skew} :
           last = [op |-> "input", guard |-> g, target |-> t, tol |-> tol]

CheckCompat ==
    /\ last.op = "input"
    /\ last' = [op |-> "check_compat", guard |-> last.guard, target |-> last.target,
                tol |-> last.tol,
                res |-> check_compat(last.guard, last.target,
                                     last.tol[1], last.tol[2], last.tol[3])]
    /\ UNCHANGED <<glasses, compatible_devices, display_list_cache, bot_vars>>

NextCompat == CheckCompat

SpecCompat == InitCompat /\ [][NextCompat]_vars

(***************************************************************************)
(* The bot: text messages, photos and review callbacks.                    *)
(***************************************************************************)
MaxSuggestions == 1
MaxPayments == 2
MaxQueries == 12

Msg(text, intent, parameters) ==
    [text |-> text, result |-> [ok |-> TRUE, intent |-> intent, parameters |-> parameters]]

\* a message the classifier fails on
Unclassified == [text |-> "other", result |-> [ok |-> FALSE]]

N_SamsungS21 == <<"Samsung", "Galaxy", "S21">>

\* the text messages of the catalog scenario: who writes, and what
BotCalls ==
    { <<1, Msg("other", "add_device", [key |-> K_S21, dims |-> D_S21])>>,
      <<1, Msg("other", "add_device", [key |-> K_GuardA, dims |-> D_S21])>>,
      <<1, Msg("other", "add_device", [key |-> K_RedMagic, dims |-> D_GuardA])>>,
      <<1, Msg("other", "add_compatible_devices",
               [key |-> K_S21, compatible_devices |-> <<K_GuardA, K_iPad>>])>>,
      <<1, Msg("other", "review_suggestions", [none |-> TRUE])>>,
      <<1, Msg("other", "batch_compatibility",
               [devices |-> <<N_Banana, N_S21, N_GuardA>>])>>,
      <<1, Msg("other", "batch_compatibility",
               [devices |-> <<N_S21, N_SamsungS21>>])>>,
      <<7, Msg("other", "add_device", [key |-> K_iPad, dims |-> D_Max])>>,
      <<7, Msg("other", "edit_device", [key |-> K_S21, dims |-> D_GuardA])>>,
      <<7, Msg("other", "add_compatible_devices",
               [key |-> K_S21, compatible_devices |-> <<K_S21>>])>>,
      <<7, Msg("other", "fetch_device",
               [key |-> K_S21, source |-> [found |-> TRUE, dims |-> D_GuardA]])>>,
      <<7, Msg("other", "list_devices", [brand |-> <<"Samsung">>])>>,
      <<7, Msg("other", "review_suggestions", [none |-> TRUE])>>,
      <<7, Msg("other", "suggest_device", [key |-> K_iPad, dims |-> D_Max])>>,
      <<7, Msg("other", "view_compatible_devices", [model |-> N_S21])>>,
      <<7, Msg("other", "find_by_dimensions",
               [height_min |-> 15000, height_max |-> 15500, width_min |-> 7000,
                width_max |-> 7500, diagonal_min |-> 600, diagonal_max |-> 620])>>,
      <<7, Msg("other", "batch_compatibility", [devices |-> <<N_S21, N_GuardA>>])>>,
      <<7, Unclassified>> }

\* the text messages of the subscription scenario
QuotaCalls ==
    { <<7, Msg("other", "view_compatible_devices", [model |-> N_S21])>>,
      <<7, Msg("other", "find_by_dimensions",
               [height_min |-> 15000, height_max |-> 15500, width_min |-> 7000,
                width_max |-> 7500, diagonal_min |-> 600, diagonal_max |-> 620])>>,
      <<7, Msg("other", "unknown", [none |-> TRUE])>>,
      <<7, Msg("other", "buy_subscription", [plan_id |-> "pro"])>>,
      <<7, Msg("other", "buy_subscription", [plan_id |-> "1"])>>,
      <<7, Msg("cancel", "cancel", [none |-> TRUE])>>,
      <<7, Unclassified>>,
      <<1, Msg("other", "view_compatible_devices", [model |-> N_S21])>> }

\* the callback data of the payment review buttons
PaymentCallbacks == {"approve", "reject"} \X (1..MaxPayments)

\* the callback data of the suggestion review buttons
SuggestionCallbacks == {"approve", "reject"} \X (1..MaxSuggestions)

\* the state an outcome leaves, within the bounds of the model
Leaves(w) ==
    /\ Len(w.glasses) <= MaxDevices
    /\ Cardinality(w.compatible_devices) <= MaxLinks
    /\ Len(w.device_suggestions) <= MaxSuggestions
    /\ Len(w.payments) <= MaxPayments
    /\ \A u \in Users : w.user_queries[u] <= MaxQueries
    /\ glasses' = w.glasses
    /\ compatible_devices' = w.compatible_devices
    /\ display_list_cache' = w.display_list_cache
    /\ device_suggestions' = w.device_suggestions
    /\ payments' = w.payments
    /\ user_queries' = w.user_queries
    /\ user_data' = w.user_data

HandleTextMessage(calls) ==
    \E c \in calls :
        \E o \in {handle_text_message(World, c[1], c[2])} :
            /\ Leaves(o.w)
            /\ last' = [op |-> "handle_text_message", user |-> c[1], message |-> c[2],
                        intent |-> o.intent, reply |-> o.reply, res |-> o.res]

SuggestionReviewCallback ==
    \E c \in SuggestionCallbacks :
        \E o \in {suggestion_review_callback(World, c[1], c[2])} :
            /\ Leaves(o.w)
            /\ last' = [op |-> "suggestion_review_callback", action |-> c[1], rid |-> c[2],
                        reply |-> o.reply]

HandlePhotoMessage ==
    \E u \in Users \ ADMIN_IDS :
        \E o \in {handle_photo_message(World, u)} :
            /\ Leaves(o.w)
            /\ last' = [op |-> "handle_photo_message", user |-> u, reply |-> o.reply]

PaymentReviewCallback ==
    \E c \in PaymentCallbacks :
        \E o \in {payment_review_callback(World, c[1], c[2])} :
            /\ Leaves(o.w)
            /\ last' = [op |-> "payment_review_callback", action |-> c[1], pid |-> c[2],
                        reply |-> o.reply]

\* midnight UTC: the rows of user_queries for the new date do not exist yet
NewDay ==
    /\ user_queries' = [u \in Users |-> 0]
    /\ last' = [op |-> "new_day"]
    /\ UNCHANGED <<glasses, compatible_devices, display_list_cache, device_suggestions,
                   payments, user_data>>

\* the catalog scenario: the admin fills the catalog, a free user asks
NextBot ==
    \/ HandleTextMessage(BotCalls)
    \/ SuggestionReviewCallback

SpecBot == Init /\ [][NextBot]_vars

\* the subscription scenario: a user buys plans, the admin reviews the payments
NextQuota ==
    \/ HandleTextMessage(QuotaCalls)
    \/ HandlePhotoMessage
    \/ PaymentReviewCallback
    \/ NewDay

SpecQuota == Init /\ [][NextQuota]_vars

(***************************************************************************)
(* find_compatible_glasses statement by statement.  Each of its database   *)
(* reads is a statement of its own (services.py 375, 376, 381-387, 399 or  *)
(* 429) and no transaction spans them, so a catalog or link write of       *)
(* another handler may come between any two of them.  Here `last` is the   *)
(* call of find_compatible_glasses under way, with its locals, or the last *)
(* one that returned; the writes leave it alone.                           *)
(***************************************************************************)
D_Wide == Dims(15000, 7120, 610, "None")

\* height_tol larger than width_tol
T_Tall == <<200, TOL_MM, 20>>

\* the calls find_compatible_glasses(name, height_tol, width_tol, diagonal_tol)
SearchCalls ==
    { <<N_S21, T_Loose>>, <<N_GuardA, T_Skew>>, <<N_GuardA, T_Tall>>, <<N_Banana, T_Zero>> }

\* the writes of the other handlers
SearchAddCalls ==
    { <<K_S21, D_S21>>, <<K_S21, D_Wide>>, <<K_GuardA, D_S21>>, <<K_GuardA, D_GuardA>> }

SearchEditCalls == { <<K_GuardA, D_GuardA>>, <<K_S21, D_BigDiag>> }

SearchLinkCalls == { <<K_S21, (<<K_GuardA, K_S21>>)>>, <<K_GuardA, (<<K_S21>>)>> }

Running == "find_compatible_glasses, under way"

\* lines 369-373: the name is resolved and the base row taken from the display list
find_resolve(name, tol, list) ==
    LET display == normalize_glass(name, list)
    IN  IF ~display.found
        THEN [op |-> "find_compatible_glasses", name |-> name, tol |-> tol,
              res |-> [found |-> FALSE]]
        ELSE [op |-> Running, pc |-> "bounds", name |-> name, tol |-> tol,
              base |-> FirstByName(display.name, list), b |-> NullBounds,
              verified_devices |-> <<>>, verified_rows |-> <<>>]

\* lines 395-448: the scan of the catalog, the area filter and the merge
find_scan(call, rows) ==
    LET base == call.base
        tol == call.tol
    IN  IF call.b.null
        THEN [op |-> "find_compatible_glasses", name |-> call.name, tol |-> tol,
              bounds |-> call.b, scanned |-> rows,
              scan |-> FallbackScan(rows, base, tol[1], tol[2], tol[3]),
              res |-> [found |-> TRUE, base |-> base, path |-> "fallback",
                       verified_rows |-> call.verified_rows, filtered_rows |-> <<>>,
                       rows |-> TagAll(FallbackScan(rows, base, tol[1], tol[2], tol[3]),
                                       "Dimension-based")]]
        ELSE LET scan == BoundsScan(rows, call.b.bounds, tol[1], tol[2], tol[3])
                 filtered_rows == AreaFilter(scan, base)
             IN  [op |-> "find_compatible_glasses", name |-> call.name, tol |-> tol,
                  bounds |-> call.b, scanned |-> rows, scan |-> scan,
                  res |-> [found |-> TRUE, base |-> base, path |-> "bounds",
                           verified_rows |-> call.verified_rows,
                           filtered_rows |-> filtered_rows,
                           rows |-> Unique(call.verified_rows \o filtered_rows, {})]]

FindBegin ==
    /\ last.op # Running
    /\ \E c \in SearchCalls :
         \E cache \in {build_display_list(display_list_cache, glasses)} :
            /\ display_list_cache' = cache
            /\ last' = find_resolve(c[1], c[2], cache.list)
    /\ UNCHANGED <<glasses, compatible_devices, bot_vars>>

\* line 375
FindBounds ==
    /\ last.op = Running /\ last.pc = "bounds"
    /\ last' = [last EXCEPT !.pc = "links",
                            !.b = get_verified_dimension_bounds(glasses, compatible_devices,
                                                                KeyOf(last.base))]
    /\ UNCHANGED <<glasses, compatible_devices, display_list_cache, bot_vars>>

\* line 376
FindLinks ==
    /\ last.op = Running /\ last.pc = "links"
    /\ \E verified_devices \in {get_compatible_devices(compatible_devices, KeyOf(last.base))} :
         last' = [last EXCEPT !.pc = IF verified_devices = <<>> THEN "scan" ELSE "verified",
                              !.verified_devices = verified_devices]
    /\ UNCHANGED <<glasses, compatible_devices, display_list_cache, bot_vars>>

\* lines 380-393: one turn of the loop, for the next linked device
FindVerifiedRow ==
    /\ last.op = Running /\ last.pc = "verified"
    /\ last' = [last EXCEPT
                  !.pc = IF Len(last.verified_devices) = 1 THEN "scan" ELSE "verified",
                  !.verified_devices = Tail(last.verified_devices),
                  !.verified_rows = last.verified_rows \o
                        VerifiedRows(<<Head(last.verified_devices)>>, glasses, last.base)]
    /\ UNCHANGED <<glasses, compatible_devices, display_list_cache, bot_vars>>

\* lines 395-448
FindScan ==
    /\ last.op = Running /\ last.pc = "scan"
    /\ last' = find_scan(last, glasses)
    /\ UNCHANGED <<glasses, compatible_devices, display_list_cache, bot_vars>>

WriteAddGlass ==
    \E c \in SearchAddCalls :
        \E a \in {add_glass(glasses, display_list_cache, c[1], c[2])} :
            /\ Len(a.glasses) <= MaxDevices
            /\ glasses' = a.glasses
            /\ display_list_cache' = a.cache
            /\ UNCHANGED <<compatible_devices, last, bot_vars>>

WriteUpdatePhoneDimensions ==
    \E c \in SearchEditCalls :
        \E a \in {update_phone_dimensions(glasses, display_list_cache, c[1], c[2])} :
            /\ glasses' = a.glasses
            /\ display_list_cache' = a.cache
            /\ UNCHANGED <<compatible_devices, last, bot_vars>>

WriteUpdateDeviceFromSource ==
    \E data \in SourceData(K_S21) :
        \E a \in {update_device_from_source(glasses, display_list_cache, K_S21, data)} :
            /\ Len(a.glasses) <= MaxDevices
            /\ glasses' = a.glasses
            /\ display_list_cache' = a.cache
            /\ UNCHANGED <<compatible_devices, last, bot_vars>>

WriteAddCompatibleDevices ==
    \E c \in SearchLinkCalls :
        \E a \in {add_compatible_devices(compatible_devices, c[1], c[2])} :
            /\ Cardinality(a.links) <= MaxLinks
            /\ compatible_devices' = a.links
            /\ UNCHANGED <<glasses, display_list_cache, last, bot_vars>>

NextSearch ==
    \/ FindBegin
    \/ FindBounds
    \/ FindLinks
    \/ FindVerifiedRow
    \/ FindScan
    \/ WriteAddGlass
    \/ WriteUpdatePhoneDimensions
    \/ WriteUpdateDeviceFromSource
    \/ WriteAddCompatibleDevices

SpecSearch == Init /\ [][NextSearch]_vars

(***************************************************************************)
(* Claims.                                                                 *)
(***************************************************************************)

\* C1: check_compat returns true exactly when the notch classes are equal or
\* one of them is None, the target is at least as tall and as wide as the
\* guard and by no more than the height and width tolerances, and the
\* diagonals differ by no more than the diagonal tolerance in either
\* direction; in every other case it returns false.
C1_CheckCompatExact ==
    last.op = "check_compat" =>
        LET g == last.guard
            t == last.target
            notch == g.nt = t.nt \/ g.nt = "None" \/ t.nt = "None"
            height == 0 <= t.h - g.h /\ t.h - g.h <= last.tol[1]
            width == 0 <= t.w - g.w /\ t.w - g.w <= last.tol[2]
            diagonal == -last.tol[3] <= t.d - g.d /\ t.d - g.d <= last.tol[3]
        IN  last.res = (notch /\ height /\ width /\ diagonal)

\* a guard with a larger diagonal and the wildcard notch class fits
C1_Witness ==
    /\ last.op = "check_compat"
    /\ last.res
    /\ last.guard.d > last.target.d
    /\ last.guard.nt = "None" /\ last.target.nt = "Punch-hole"
    /\ last.guard.h < last.target.h

\* C2: check_compat is not symmetric: when the guard fits the target and is
\* strictly smaller in height or in width, the target does not fit the guard
\* under the same tolerances; with tolerances (2, 2, 0.2) guard
\* (150.0, 70.0, 6.1, None) fits target (151.7, 71.2, 6.2, Punch-hole) and the
\* swapped call is false.
C2_NotSymmetric ==
    last.op = "check_compat" =>
        /\ (last.res /\ (last.guard.h < last.target.h \/ last.guard.w < last.target.w))
              => ~check_compat(last.target, last.guard, last.tol[1], last.tol[2], last.tol[3])
        /\ (last.guard = D_GuardA /\ last.target = D_S21 /\ last.tol = T_Loose) => last.res
        /\ (last.guard = D_S21 /\ last.target = D_GuardA /\ last.tol = T_Loose) => ~last.res

\* the scenario: Guard A fits the Galaxy S21
C2_Witness ==
    /\ last.op = "check_compat"
    /\ last.guard = D_GuardA /\ last.target = D_S21 /\ last.tol = T_Loose
    /\ last.res

(***************************************************************************)
(* What the claims about find_compatible_glasses read from the last call.  *)
(***************************************************************************)
Found == last.op = "find_compatible_glasses" /\ last.res.found

\* the keys of the entries of a tagged sequence
KeysIn(tagged) == {KeyOf(tagged[i].row) : i \in DOMAIN tagged}

\* the positions of the result that hold a device
Positions(tagged, key) == {i \in DOMAIN tagged : KeyOf(tagged[i].row) = key}

\* C3: when the verified-link branch and the dimension-based branch of
\* find_compatible_glasses both produce the same (brand, model), the result
\* holds exactly one entry for it and that entry is tagged Verified.
C3_DedupKeepsVerified ==
    Found =>
        \A key \in KeysIn(last.res.verified_rows) \cap KeysIn(last.res.filtered_rows) :
            /\ Cardinality(Positions(last.res.rows, key)) = 1
            /\ \A i \in Positions(last.res.rows, key) : last.res.rows[i].source = "Verified"

\* a device other than the queried one is produced by both branches
C3_Witness ==
    /\ Found
    /\ \E key \in KeysIn(last.res.verified_rows) \cap KeysIn(last.res.filtered_rows) :
           key # KeyOf(last.res.base)

\* C4: the result of find_compatible_glasses holds an entry tagged Verified
\* for a device exactly when a verified link leads from the resolved base
\* device to it, it has a catalog row, and check_compat(base, row, 0, 0, 0)
\* holds; the entry is that catalog row. A link to a device with no catalog
\* row, or to one that fails the zero-tolerance check, adds no entry.
C4_VerifiedExactly ==
    Found =>
        /\ \A key \in Keys :
              (\E i \in DOMAIN last.res.rows :
                  /\ last.res.rows[i].source = "Verified"
                  /\ KeyOf(last.res.rows[i].row) = key)
              <=>
              (/\ <<KeyOf(last.res.base), key>> \in compatible_devices
               /\ \E r \in Range(glasses) :
                     /\ KeyOf(r) = key
                     /\ check_compat(last.res.base, r, 0, 0, 0))
        /\ \A i \in DOMAIN last.res.rows :
              last.res.rows[i].source = "Verified" => last.res.rows[i].row \in Range(glasses)

\* the base device has a link that passes, one that fails the check and one
\* whose target has no catalog row
C4_Witness ==
    /\ Found
    /\ \E i \in DOMAIN last.res.rows : last.res.rows[i].source = "Verified"
    /\ \E l \in compatible_devices :
          /\ l[1] = KeyOf(last.res.base)
          /\ ~device_exists(glasses, l[2])
    /\ \E l \in compatible_devices :
          /\ l[1] = KeyOf(last.res.base)
          /\ device_exists(glasses, l[2])
          /\ ~check_compat(last.res.base, RowOf(glasses, l[2]), 0, 0, 0)

\* C5: every entry tagged Dimension-based that find_compatible_glasses
\* returns has height * width at most the resolved base device's.
C5_AreaMonotone ==
    Found =>
        \A i \in DOMAIN last.res.rows :
            last.res.rows[i].source = "Dimension-based" =>
                last.res.rows[i].row.h * last.res.rows[i].row.w
                    <= last.res.base.h * last.res.base.w

\* a Dimension-based entry is returned while the catalog holds a device of a
\* larger area inside the tolerances around the base device
C5_Witness ==
    /\ Found
    /\ \E i \in DOMAIN last.res.rows : last.res.rows[i].source = "Dimension-based"
    /\ \E r \in Range(glasses) :
          /\ r.h * r.w > last.res.base.h * last.res.base.w
          /\ Abs(r.h - last.res.base.h) <= last.tol[1]
          /\ Abs(r.w - last.res.base.w) <= last.tol[2]
          /\ Abs(r.d - last.res.base.d) <= last.tol[3]
          /\ r.nt = "None"

NoLinksFrom(key) == \A l \in compatible_devices : l[1] # key

\* the catalog rows inside the symmetric ranges around a device's dimensions
SymmetricRange(own, tol) ==
    {r \in Range(glasses) :
        /\ Abs(r.h - own.h) <= tol[1]
        /\ Abs(r.w - own.w) <= tol[2]
        /\ Abs(r.d - own.d) <= tol[3]}

\* C6 as stated: for a device that has no verified links,
\* get_verified_dimension_bounds returns the null triple and
\* find_compatible_glasses falls back to the symmetric range query around
\* the device's own dimensions.
C6_NullBoundsWithoutLinks ==
    /\ (/\ last.op = "get_verified_dimension_bounds"
        /\ device_exists(glasses, last.key)
        /\ NoLinksFrom(last.key))
          => last.res.null
    /\ (Found /\ NoLinksFrom(KeyOf(last.res.base)))
          => /\ last.res.path = "fallback"
             /\ KeysIn(last.res.rows)
                   = {KeyOf(r) : r \in SymmetricRange(last.res.base, last.tol)}

\* C6 amended: for an identity with no verified links,
\* get_verified_dimension_bounds returns the null triple exactly when the
\* identity has no catalog row; for a catalog device it returns the envelope
\* of the device's own row, and find_compatible_glasses then takes the bounds
\* branch, not the fallback, and returns Dimension-based entries only.
C6_OwnEnvelopeWithoutLinks ==
    /\ (last.op = "get_verified_dimension_bounds" /\ NoLinksFrom(last.key)) =>
          /\ last.res.null <=> ~device_exists(glasses, last.key)
          /\ \A r \in Range(glasses) : KeyOf(r) = last.key =>
                /\ last.res.bounds.min_height = r.h /\ last.res.bounds.max_height = r.h
                /\ last.res.bounds.min_width = r.w /\ last.res.bounds.max_width = r.w
                /\ last.res.bounds.min_diagonal = r.d /\ last.res.bounds.max_diagonal = r.d
                /\ last.res.bounds.notch_types = {r.nt}
                /\ last.res.largest_device = r /\ last.res.smallest_device = r
    /\ (Found /\ NoLinksFrom(KeyOf(last.res.base))) =>
          /\ last.res.path = "bounds"
          /\ \A i \in DOMAIN last.res.rows : last.res.rows[i].source = "Dimension-based"

\* the bounds of a catalog device with no links were asked for, while other
\* devices have links
C6_Witness ==
    /\ last.op = "get_verified_dimension_bounds"
    /\ device_exists(glasses, last.key)
    /\ NoLinksFrom(last.key)
    /\ compatible_devices # {}
    /\ ~last.res.null

InRange(dm) ==
    /\ 0 < dm.h /\ dm.h <= 30000
    /\ 0 < dm.w /\ dm.w <= 20000
    /\ 0 < dm.d /\ dm.d <= 1000

\* C7: add_glass and update_phone_dimensions called with height outside
\* (0,300], width outside (0,200] or diagonal outside (0,10] raise, and then
\* the catalog is unchanged and the display-list cache is not invalidated.
C7_InvalidWriteRejected ==
    [][(last'.op \in {"add_glass", "update_phone_dimensions"} /\ ~InRange(last'.dims))
          => /\ last'.raised
             /\ glasses' = glasses
             /\ display_list_cache' = display_list_cache
             /\ compatible_devices' = compatible_devices]_vars

\* an invalid call was rejected while the catalog and the cache were not empty
C7_Witness ==
    /\ last.op \in {"add_glass", "update_phone_dimensions"}
    /\ last.raised
    /\ ~InRange(last.dims)
    /\ glasses # <<>>
    /\ display_list_cache.built

\* C8: after any sequence of catalog operations every catalog record has
\* height in (0,300], width in (0,200] and diagonal in (0,10].
C8_CatalogAlwaysValid == \A r \in Range(glasses) : InRange(r)

\* C9: every operation that changes the catalog clears the display-list
\* cache before it returns, so between operations the cache is empty or holds
\* exactly the current catalog rows, and get_phone returns no dimensions that
\* differ from the catalog.
C9_CacheFresh ==
    /\ display_list_cache.built =>
          /\ Len(display_list_cache.list) = Len(glasses)
          /\ \A i \in DOMAIN glasses : display_list_cache.list[i].spec = glasses[i]
    /\ (last.op = "get_phone" /\ last.res.found) => last.res.spec \in Range(glasses)

\* C10: find_compatible_glasses returns NotFound exactly when no display name
\* scores at least the threshold against the query; when the name resolves it
\* returns a sequence, possibly empty. find_devices_by_dimensions returns the
\* catalog rows in range, the empty sequence when there are none.
C10_NotFoundOnlyUnresolved ==
    /\ last.op = "find_compatible_glasses" =>
          /\ last.res.found <=>
                \E i \in DOMAIN display_list_cache.list :
                    Score(last.name, display_list_cache.list[i].name) >= 70
          /\ last.res.found => DOMAIN last.res.rows = 1..Len(last.res.rows)
    /\ last.op = "find_devices_by_dimensions" =>
          /\ DOMAIN last.res = 1..Len(last.res)
          /\ Range(last.res) =
                {r \in Range(glasses) :
                    /\ last.query.height_min <= r.h /\ r.h <= last.query.height_max
                    /\ last.query.width_min <= r.w /\ r.w <= last.query.width_max
                    /\ last.query.diagonal_min <= r.d /\ r.d <= last.query.diagonal_max}

\* the name resolved and nothing matched
C10_Witness ==
    /\ Found
    /\ last.res.rows = <<>>

\* C13: add_compatible_devices returns the number of edges it newly inserted;
\* pairs already linked are ignored, so a call repeated with the same
\* arguments leaves the link set as it was and reports 0.
C13_ReturnsInsertedCount ==
    [][last'.op = "add_compatible_devices" =>
          /\ compatible_devices' =
                compatible_devices \cup {<<last'.key, t>> : t \in Range(last'.targets)}
          /\ ~last'.res.none
          /\ last'.res.value = Cardinality(compatible_devices' \ compatible_devices)]_vars

DiffersMaterially(r, dm) ==
    \/ Abs(r.h - dm.h) > 1
    \/ Abs(r.w - dm.w) > 1
    \/ Abs(r.d - dm.d) > 1
    \/ r.nt # dm.nt

\* C15: update_device_from_source returns no status when the source has no
\* data (catalog unchanged), 'inserted' exactly when the fetched identity had
\* no row (the row then holds the fetched values), 'updated' exactly when the
\* row differed by more than 0.01 in a dimension or in notch class (the row
\* then equals the fetched values), 'skipped' otherwise (catalog unchanged).
C15_SyncStatusExact ==
    [][last'.op = "update_device_from_source" =>
          IF ~last'.data.found
          THEN last'.status = "null" /\ glasses' = glasses
          ELSE IF ~device_exists(glasses, last'.key)
          THEN /\ last'.status = "inserted"
               /\ device_exists(glasses', last'.key)
               /\ RowOf(glasses', last'.key) = Row(last'.key, last'.data.dims)
          ELSE IF DiffersMaterially(RowOf(glasses, last'.key), last'.data.dims)
          THEN /\ last'.status = "updated"
               /\ RowOf(glasses', last'.key) = Row(last'.key, last'.data.dims)
          ELSE last'.status = "skipped" /\ glasses' = glasses]_vars

\* C16: notch normalization maps each of the five recognized classes to
\* itself and everything else to None, so a device added with a recognized
\* notch class, Punch-hole included, is stored with that class.
C16_NotchClassKept ==
    (last.op = "add_glass" /\ ~last.raised) =>
        LET stored == RowOf(glasses, last.key).nt
        IN  /\ stored \in VALID_NOTCH_TYPES
            /\ last.dims.nt \in VALID_NOTCH_TYPES => stored = last.dims.nt
            /\ last.dims.nt \notin VALID_NOTCH_TYPES => stored = "None"
            /\ normalize_notch_type(stored) = stored

PairIndex(a, b, k) == (a - 1) * k - ((a - 1) * a) \div 2 + (b - a)

\* C14: check_batch_compatibility skips the names that do not resolve and,
\* for the k names that resolve, returns one result per pair (i, j) with i
\* before j in input order, the result of check_compat with the earlier
\* device as guard; it returns the empty sequence when fewer than two names
\* resolve, and it never pairs a device with itself.
C14_BatchPairs ==
    (/\ last.op = "handle_text_message"
     /\ last.reply \in {"batch_results", "no_valid_devices"}) =>
        LET names == last.res.devices
            results == last.res.results
            list == display_list_cache.list
            resolved == {i \in DOMAIN names : get_phone(names[i], list).found}
            k == Cardinality(resolved)
            rank(i) == Cardinality({j \in resolved : j <= i})
            spec(i) == get_phone(names[i], list).spec
        IN  /\ Len(results) = (k * (k - 1)) \div 2
            /\ \A i \in resolved : \A j \in resolved :
                   i < j =>
                       results[PairIndex(rank(i), rank(j), k)] =
                           [first |-> KeyOf(spec(i)), second |-> KeyOf(spec(j)),
                            fit |-> check_compat(spec(i), spec(j), TOL_MM, TOL_MM,
                                                 DEFAULT_DIAGONAL_TOL)]
            /\ \A n \in DOMAIN results : results[n].first # results[n].second

\* the user is no admin and the latest approved payment, if any, is not for pro
FreeUser(u) == u \notin ADMIN_IDS /\ get_user_subscription_status(payments, u) # "pro"

\* C17 as claimed: a counted query of a free user is handled only while the
\* stored count of the day is below 10, and counts; once the count is 10 or
\* more every message of the user is refused with the limit notice and the
\* count does not grow.
C17_LimitNoticeAlways ==
    [][(last'.op = "handle_text_message" /\ FreeUser(last'.user)) =>
          LET before == user_queries[last'.user]
              after == user_queries'[last'.user]
          IN  /\ last'.intent \in COUNTED_INTENTS => (before < 10 /\ after = before + 1)
              /\ before >= 10 => (last'.reply = "daily_limit_reached" /\ after = before)]_vars

\* C17 amended: as claimed, but the refusal of a message at the limit is the
\* limit notice only outside the state awaiting_payment_screenshot; in that
\* state the payment dialogue answers, and no intent is handled either.
C17_FreeQuota ==
    [][(last'.op = "handle_text_message" /\ FreeUser(last'.user)) =>
          LET before == user_queries[last'.user]
              after == user_queries'[last'.user]
              awaiting == user_data[last'.user].state = "awaiting_payment_screenshot"
          IN  /\ last'.intent \in COUNTED_INTENTS => (before < 10 /\ after = before + 1)
              /\ before >= 10 =>
                    /\ last'.intent = "" /\ after = before
                    /\ ~awaiting => last'.reply = "daily_limit_reached"
                    /\ awaiting => last'.reply \in {"send_a_screenshot", "payment_cancelled"}]_vars

\* a free user who made ten counted queries today was refused the next message
C17_Witness ==
    /\ last.op = "handle_text_message"
    /\ last.reply = "daily_limit_reached"
    /\ FreeUser(last.user)
    /\ user_queries[last.user] = 10
    /\ payments = <<>>

\* C18: a user who is no admin and whose subscription status is not pro gets
\* no result of find_by_dimensions or batch_compatibility: for these intents
\* the reply is that a Pro plan is required, and neither
\* find_devices_by_dimensions nor check_batch_compatibility runs.
C18_ProIntentsGated ==
    [][(last'.op = "handle_text_message" /\ FreeUser(last'.user)) =>
          /\ last'.intent \in PRO_INTENTS =>
                /\ last'.reply = "requires_pro"
                /\ last'.res = PyNone
                /\ display_list_cache' = display_list_cache
          /\ last'.reply \notin {"devices_in_range", "no_devices_in_range",
                                 "batch_results", "no_valid_devices"}]_vars

\* a free user asked for a batch check of two devices of the catalog and was
\* told that a Pro plan is required
C18_Witness ==
    /\ last.op = "handle_text_message"
    /\ FreeUser(last.user)
    /\ last.intent = "batch_compatibility"
    /\ last.reply = "requires_pro"
    /\ device_exists(glasses, K_S21)
    /\ device_exists(glasses, K_GuardA)

\* C19: view_compatible_devices requires a Pro plan: no entry tagged
\* Verified is sent to a user who is no admin and whose subscription status
\* is not pro.
C19_VerifiedOnlyForPro ==
    (/\ last.op = "handle_text_message"
     /\ FreeUser(last.user)
     /\ last.reply = "compatible_devices") =>
        \A i \in DOMAIN last.res.rows : last.res.rows[i].source # "Verified"

\* C20: a text message of a user who is not in ADMIN_IDS that is classified
\* as one of the six admin intents is answered Unauthorized and leaves the
\* catalog, the verified links and the suggestions unchanged.
C20_AdminIntentsGated ==
    [][(/\ last'.op = "handle_text_message"
        /\ last'.user \notin ADMIN_IDS
        /\ last'.intent \in ADMIN_INTENTS) =>
          /\ last'.reply = "unauthorized"
          /\ glasses' = glasses
          /\ compatible_devices' = compatible_devices
          /\ device_suggestions' = device_suggestions]_vars

\* a user who is no admin asked to edit a device of the catalog and was
\* refused
C20_Witness ==
    /\ last.op = "handle_text_message"
    /\ last.user \notin ADMIN_IDS
    /\ last.intent = "edit_device"
    /\ last.reply = "unauthorized"
    /\ device_exists(glasses, K_S21)

(***************************************************************************)
(* Claims about the search, read from the call that returned.              *)
(***************************************************************************)
Returned == last.op = "find_compatible_glasses" /\ last.res.found

\* C21: in the bounds branch a catalog device is a dimension-based candidate
\* exactly when its height, width and diagonal lie in the envelope widened on
\* both ends by the height, width and diagonal tolerance respectively, and its
\* notch class is in the envelope's notch set or is None.
C21_ScanOwnTolerances ==
    (Returned /\ last.res.path = "bounds") =>
        LET e == last.bounds.bounds
        IN  \A r \in Range(last.scanned) :
                (r \in Range(last.scan)) <=>
                    /\ Between(r.h, e.min_height - last.tol[1], e.max_height + last.tol[1])
                    /\ Between(r.w, e.min_width - last.tol[2], e.max_width + last.tol[2])
                    /\ Between(r.d, e.min_diagonal - last.tol[3], e.max_diagonal + last.tol[3])
                    /\ r.nt \in e.notch_types \cup {"None"}

\* the input set of get_verified_dimension_bounds for the key of the last
\* call: the device's own row and the rows of the devices linked from it
InputSet ==
    {r \in Range(glasses) :
        KeyOf(r) = last.key \/ <<last.key, KeyOf(r)>> \in compatible_devices}

\* C22: when the input set is not empty, get_verified_dimension_bounds returns
\* the element-wise minimum and maximum of height, width and diagonal over the
\* set, exactly the set's notch classes, a member of the largest area and a
\* member of the smallest area; so min <= max on every axis and the device's
\* own dimensions lie inside the envelope.
C22_EnvelopeOfInputSet ==
    (last.op = "get_verified_dimension_bounds" /\ InputSet # {}) =>
        /\ ~last.res.null
        /\ LET e == last.res.bounds
               S == InputSet
               Area(r) == r.h * r.w
           IN  /\ \E r \in S : r.h = e.min_height
               /\ \E r \in S : r.h = e.max_height
               /\ \E r \in S : r.w = e.min_width
               /\ \E r \in S : r.w = e.max_width
               /\ \E r \in S : r.d = e.min_diagonal
               /\ \E r \in S : r.d = e.max_diagonal
               /\ \A r \in S : /\ Between(r.h, e.min_height, e.max_height)
                               /\ Between(r.w, e.min_width, e.max_width)
                               /\ Between(r.d, e.min_diagonal, e.max_diagonal)
                               /\ Area(r) <= Area(last.res.largest_device)
                               /\ Area(r) >= Area(last.res.smallest_device)
               /\ e.notch_types = {r.nt : r \in S}
               /\ last.res.largest_device \in S
               /\ last.res.smallest_device \in S
               /\ e.min_height <= e.max_height
               /\ e.min_width <= e.max_width
               /\ e.min_diagonal <= e.max_diagonal

\* the bounds of a device linked to a smaller one: the envelope spans both
C22_Witness ==
    /\ last.op = "get_verified_dimension_bounds"
    /\ Cardinality(InputSet) = 2
    /\ \E r \in InputSet : KeyOf(r) = last.key
    /\ ~last.res.null
    /\ last.res.bounds.min_height < last.res.bounds.max_height
    /\ last.res.largest_device # last.res.smallest_device

\* the place of a device in the answer of the link query for the base device,
\* and the place of its row in the catalog scan
LinkPlace(key) ==
    LET linked == get_compatible_devices(compatible_devices, KeyOf(last.res.base))
    IN  CHOOSE i \in DOMAIN linked : linked[i] = key

ScanPlace(key) == CHOOSE i \in DOMAIN glasses : KeyOf(glasses[i]) = key

\* C24: in the sequence find_compatible_glasses returns no entry tagged
\* Verified comes after an entry tagged Dimension-based, the Verified entries
\* are in the order of the link query and the Dimension-based entries in the
\* order of the catalog scan.
C24_VerifiedFirstInSourceOrder ==
    Found =>
        LET rows == last.res.rows
        IN  \A i, j \in DOMAIN rows :
                i < j =>
                    /\ ~(rows[i].source = "Dimension-based" /\ rows[j].source = "Verified")
                    /\ (rows[i].source = "Verified" /\ rows[j].source = "Verified")
                          => LinkPlace(KeyOf(rows[i].row)) < LinkPlace(KeyOf(rows[j].row))
                    /\ (rows[i].source = "Dimension-based" /\ rows[j].source = "Dimension-based")
                          => ScanPlace(KeyOf(rows[i].row)) < ScanPlace(KeyOf(rows[j].row))

\* a Verified entry comes before a Dimension-based entry whose row is earlier
\* in the catalog
C24_Witness ==
    /\ Found
    /\ Len(last.res.rows) = 2
    /\ last.res.rows[1].source = "Verified"
    /\ last.res.rows[2].source = "Dimension-based"
    /\ ScanPlace(KeyOf(last.res.rows[2].row)) < ScanPlace(KeyOf(last.res.rows[1].row))

\* C25: the sequence find_compatible_glasses returns never holds two entries
\* of the same (brand, model), on either path, also when writes of other
\* handlers come between its bounds query, its link query, its row lookups
\* and its catalog scan.
C25_NoDuplicateIdentity ==
    Returned =>
        \A i, j \in DOMAIN last.res.rows :
            KeyOf(last.res.rows[i].row) = KeyOf(last.res.rows[j].row) => i = j

\* a torn read: the row of a linked device was changed between its lookup and
\* the scan, so the verified step and the scan produced different rows of the
\* same device
C25_Witness ==
    /\ Returned
    /\ \E i \in DOMAIN last.res.verified_rows, j \in DOMAIN last.res.filtered_rows :
          /\ KeyOf(last.res.verified_rows[i].row) = KeyOf(last.res.filtered_rows[j].row)
          /\ last.res.verified_rows[i].row # last.res.filtered_rows[j].row

\* C26: after any sequence of catalog, link and sync operations every name
\* normalize_glass accepts denotes a device that has a catalog row; so the
\* bounds find_compatible_glasses computes after a resolution are never null
\* and it never takes the fallback branch.
C26_ResolvedHasRow ==
    /\ \A name \in Names :
          LET list == build_display_list(display_list_cache, glasses).list
              display == normalize_glass(name, list)
          IN  display.found =>
                LET key == KeyOf(FirstByName(display.name, list))
                IN  /\ device_exists(glasses, key)
                    /\ ~get_verified_dimension_bounds(glasses, compatible_devices, key).null
    /\ Found => last.res.path = "bounds"

\* a name resolved through a display list that a sync left stale: the base
\* row is no longer the catalog's row, the device has no links, and the
\* bounds branch was taken
C26_Witness ==
    /\ Found
    /\ last.res.path = "bounds"
    /\ NoLinksFrom(KeyOf(last.res.base))
    /\ last.res.base \notin Range(glasses)
    /\ device_exists(glasses, KeyOf(last.res.base))

\* the display list is the one the catalog gives
CacheConsistent == display_list_cache = build_display_list(NoCache, glasses)

\* C27: when find_compatible_glasses resolves the name and the cache is
\* consistent with the catalog, the returned sequence holds the queried
\* device itself, tagged Verified when it is linked to itself and
\* Dimension-based otherwise; so the result is not empty.
C27_ContainsQueriedDevice ==
    (Found /\ CacheConsistent) =>
        /\ last.res.rows # <<>>
        /\ \E i \in DOMAIN last.res.rows :
              /\ last.res.rows[i].row = last.res.base
              /\ last.res.rows[i].source =
                    IF <<KeyOf(last.res.base), KeyOf(last.res.base)>> \in compatible_devices
                    THEN "Verified" ELSE "Dimension-based"

\* a device without a self-link was found among two results, tagged
\* Dimension-based, under zero tolerances
C27_Witness ==
    /\ Found /\ CacheConsistent
    /\ last.tol = T_Zero
    /\ <<KeyOf(last.res.base), KeyOf(last.res.base)>> \notin compatible_devices
    /\ Len(last.res.rows) = 2
    /\ \E i \in DOMAIN last.res.rows :
          last.res.rows[i] = Tagged(last.res.base, "Dimension-based")

\* C28: a payment is created pending and its status changes at most once:
\* after it has become approved or rejected no later review action changes
\* it, so a subscription status that rests on an approved payment is not
\* revoked by a later button press.
C28_PaymentDecidedOnce ==
    [][\A pid \in DOMAIN payments' :
          IF pid \in DOMAIN payments
          THEN payments[pid].status # "pending" => payments'[pid] = payments[pid]
          ELSE payments'[pid].status = "pending"]_vars

Awaiting(u) == user_data[u].state = "awaiting_payment_screenshot"

\* C29: a payment record is created only by a photo message that arrives in
\* the state awaiting_payment_screenshot with a stored plan id: the record
\* is pending and carries that plan id, a photo or a cancel leaves neither
\* the state nor the plan id, and the state awaiting_payment_screenshot
\* always comes with the plan id a valid buy_subscription stored.
C29_OneRecordPerFlow ==
    [][/\ Len(payments') > Len(payments) =>
            /\ last'.op = "handle_photo_message"
            /\ Awaiting(last'.user)
            /\ user_data[last'.user].buy_plan_id \in Range(PLANS)
            /\ payments' = Append(payments,
                                  [user_id |-> last'.user,
                                   plan_id |-> user_data[last'.user].buy_plan_id,
                                   status |-> "pending"])
       /\ Len(payments') >= Len(payments)
       /\ (\/ last'.op = "handle_photo_message"
           \/ (/\ last'.op = "handle_text_message"
               /\ last'.reply \in {"payment_cancelled", "action_cancelled"}))
             => user_data'[last'.user] = NoUserData
       /\ \A u \in Users :
             (user_data'[u].state = "awaiting_payment_screenshot")
                => user_data'[u].buy_plan_id \in Range(PLANS)]_vars

\* the second purchase flow of a user has ended with its photo: two records,
\* one for each flow, and no state left
C29_Witness ==
    /\ last.op = "handle_photo_message"
    /\ last.reply = "payment_received"
    /\ Len(payments) = 2
    /\ payments[2] = [user_id |-> last.user, plan_id |-> "pro", status |-> "pending"]
    /\ payments[1].user_id = last.user
    /\ user_data[last.user] = NoUserData

\* C30: once the stored count of a user who is no admin and has no approved
\* pro plan is 10 or more, every text message of the user outside the state
\* awaiting_payment_screenshot is refused before the classifier is asked: no
\* intent is handled, buy_subscription, view_subscription and suggest_device
\* included, and nothing is changed.
C30_RefusedBeforeClassification ==
    [][(/\ last'.op = "handle_text_message"
        /\ FreeUser(last'.user)
        /\ user_queries[last'.user] >= 10
        /\ ~Awaiting(last'.user)) =>
            /\ last'.reply = "daily_limit_reached"
            /\ last'.intent = ""
            /\ last'.res = PyNone
            /\ user_queries' = user_queries
            /\ user_data' = user_data
            /\ payments' = payments
            /\ device_suggestions' = device_suggestions
            /\ glasses' = glasses
            /\ display_list_cache' = display_list_cache]_vars

\* a free user at the limit asked to buy the pro plan and was refused
C30_Witness ==
    /\ last.op = "handle_text_message"
    /\ last.reply = "daily_limit_reached"
    /\ last.message.result.ok
    /\ last.message.result.intent = "buy_subscription"
    /\ FreeUser(last.user)
    /\ user_queries[last.user] >= 10
    /\ ~Awaiting(last.user)

====
